---- MODULE Spec2Model ----
(***************************************************************************)
(* Model of "Kontrol af joblog": the runs of the program (src/main.py),    *)
(* which either refill the work queue (populate_queue) or work through it  *)
(* (process_workqueue), and the rules of MomentumService                   *)
(* (src/process/momentum_service.py).                                      *)
(*                                                                         *)
(* Texts are sequences of characters, each a string: the character itself, *)
(* or "U+" and its code point in hexadecimal for a control character or a  *)
(* character above U+007E that is not a letter of the Danish texts.  An    *)
(* instant is a triple <<proleptic Gregorian ordinal, second of day,       *)
(* microsecond>> in UTC.                                                   *)
(***************************************************************************)
EXTENDS Integers, Sequences, FiniteSets, TLC

VARIABLES
    status,               \* work item -> "new" | "in_progress" | "completed" | "failed"
    reference,            \* work item -> the CPR it was added with
    updated_at,           \* work item -> the wall clock of its latest change
    ur,                   \* the wall clock of the machine, in UTC
    borgere,              \* what hent_borgere returned in the latest queue run
    idx,                  \* the work item the loop is at (0 outside a pass)
    pc,                   \* position of the program: "main" between two runs
    kald,                 \* external calls and decisions of the current pass, in order
    forsoeg,              \* attempts of the exemption-status fetch in this pass
    sidste_forsoeg,       \* how the latest attempt ended
    personvisitationstatus, \* what the fetch returned in this pass
    sagsbehandler,          \* what hent_sagsbehandler("dorf") returned in this pass
    job_definition,       \* what hent_jobsøgningsdefinition returned in this pass
    krav_til_jobsogning,  \* what hent_krav_til_jobsøgning returned (Ingen = None)
    now,                  \* the wall clock hent_joblog_aktiviteter sampled
    joblog,               \* what hent_joblog returned in this pass
    tidligere_maaneds_joblog, \* the local list of hent_joblog_aktiviteter
    antal_sogte_jobs,     \* what hent_joblog_aktiviteter returned
    udfald,               \* the branch the pass ended in
    fejl                  \* the exception that ended the pass ("" when none)

vars == <<status, reference, updated_at, ur, borgere, idx, pc, kald, forsoeg, sidste_forsoeg, personvisitationstatus,
          sagsbehandler, job_definition, krav_til_jobsogning, now, joblog,
          tidligere_maaneds_joblog, antal_sogte_jobs, udfald, fejl>>

(***************************************************************************)
(* Bounds of the model.                                                    *)
(***************************************************************************)
MaxQueue == 2
MaxTekstLen == 5
MaxDedupLog == 2

\* stop_after_attempt(10)
MaxForsoeg == 10

\* None, where the code has an int or None
Ingen == -1

(***************************************************************************)
(* Texts.                                                                  *)
(***************************************************************************)
RECURSIVE SeqsUpTo(_, _)
SeqsUpTo(S, n) ==
    IF n = 0 THEN {<<>>}
    ELSE LET shorter == SeqsUpTo(S, n - 1)
         IN  shorter \cup {Append(s, c) : s \in {t \in shorter : Len(t) = n - 1}, c \in S}

\* the ASCII digits, in order: what str(int) writes
Cifre == <<"0", "1", "2", "3", "4", "5", "6", "7", "8", "9">>

\* the characters \d matches in a str pattern: the decimal digits of every
\* script, each row the digits 0..9 of one script
Decimaler ==
    << <<"0", "1", "2", "3", "4", "5", "6", "7", "8", "9">>,
       <<"U+0660", "U+0661", "U+0662", "U+0663", "U+0664", "U+0665", "U+0666", "U+0667", "U+0668", "U+0669">>,
       <<"U+06F0", "U+06F1", "U+06F2", "U+06F3", "U+06F4", "U+06F5", "U+06F6", "U+06F7", "U+06F8", "U+06F9">>,
       <<"U+07C0", "U+07C1", "U+07C2", "U+07C3", "U+07C4", "U+07C5", "U+07C6", "U+07C7", "U+07C8", "U+07C9">>,
       <<"U+0966", "U+0967", "U+0968", "U+0969", "U+096A", "U+096B", "U+096C", "U+096D", "U+096E", "U+096F">>,
       <<"U+09E6", "U+09E7", "U+09E8", "U+09E9", "U+09EA", "U+09EB", "U+09EC", "U+09ED", "U+09EE", "U+09EF">>,
       <<"U+0A66", "U+0A67", "U+0A68", "U+0A69", "U+0A6A", "U+0A6B", "U+0A6C", "U+0A6D", "U+0A6E", "U+0A6F">>,
       <<"U+0AE6", "U+0AE7", "U+0AE8", "U+0AE9", "U+0AEA", "U+0AEB", "U+0AEC", "U+0AED", "U+0AEE", "U+0AEF">>,
       <<"U+0B66", "U+0B67", "U+0B68", "U+0B69", "U+0B6A", "U+0B6B", "U+0B6C", "U+0B6D", "U+0B6E", "U+0B6F">>,
       <<"U+0BE6", "U+0BE7", "U+0BE8", "U+0BE9", "U+0BEA", "U+0BEB", "U+0BEC", "U+0BED", "U+0BEE", "U+0BEF">>,
       <<"U+0C66", "U+0C67", "U+0C68", "U+0C69", "U+0C6A", "U+0C6B", "U+0C6C", "U+0C6D", "U+0C6E", "U+0C6F">>,
       <<"U+0CE6", "U+0CE7", "U+0CE8", "U+0CE9", "U+0CEA", "U+0CEB", "U+0CEC", "U+0CED", "U+0CEE", "U+0CEF">>,
       <<"U+0D66", "U+0D67", "U+0D68", "U+0D69", "U+0D6A", "U+0D6B", "U+0D6C", "U+0D6D", "U+0D6E", "U+0D6F">>,
       <<"U+0DE6", "U+0DE7", "U+0DE8", "U+0DE9", "U+0DEA", "U+0DEB", "U+0DEC", "U+0DED", "U+0DEE", "U+0DEF">>,
       <<"U+0E50", "U+0E51", "U+0E52", "U+0E53", "U+0E54", "U+0E55", "U+0E56", "U+0E57", "U+0E58", "U+0E59">>,
       <<"U+0ED0", "U+0ED1", "U+0ED2", "U+0ED3", "U+0ED4", "U+0ED5", "U+0ED6", "U+0ED7", "U+0ED8", "U+0ED9">>,
       <<"U+0F20", "U+0F21", "U+0F22", "U+0F23", "U+0F24", "U+0F25", "U+0F26", "U+0F27", "U+0F28", "U+0F29">>,
       <<"U+1040", "U+1041", "U+1042", "U+1043", "U+1044", "U+1045", "U+1046", "U+1047", "U+1048", "U+1049">>,
       <<"U+1090", "U+1091", "U+1092", "U+1093", "U+1094", "U+1095", "U+1096", "U+1097", "U+1098", "U+1099">>,
       <<"U+17E0", "U+17E1", "U+17E2", "U+17E3", "U+17E4", "U+17E5", "U+17E6", "U+17E7", "U+17E8", "U+17E9">>,
       <<"U+1810", "U+1811", "U+1812", "U+1813", "U+1814", "U+1815", "U+1816", "U+1817", "U+1818", "U+1819">>,
       <<"U+1946", "U+1947", "U+1948", "U+1949", "U+194A", "U+194B", "U+194C", "U+194D", "U+194E", "U+194F">>,
       <<"U+19D0", "U+19D1", "U+19D2", "U+19D3", "U+19D4", "U+19D5", "U+19D6", "U+19D7", "U+19D8", "U+19D9">>,
       <<"U+1A80", "U+1A81", "U+1A82", "U+1A83", "U+1A84", "U+1A85", "U+1A86", "U+1A87", "U+1A88", "U+1A89">>,
       <<"U+1A90", "U+1A91", "U+1A92", "U+1A93", "U+1A94", "U+1A95", "U+1A96", "U+1A97", "U+1A98", "U+1A99">>,
       <<"U+1B50", "U+1B51", "U+1B52", "U+1B53", "U+1B54", "U+1B55", "U+1B56", "U+1B57", "U+1B58", "U+1B59">>,
       <<"U+1BB0", "U+1BB1", "U+1BB2", "U+1BB3", "U+1BB4", "U+1BB5", "U+1BB6", "U+1BB7", "U+1BB8", "U+1BB9">>,
       <<"U+1C40", "U+1C41", "U+1C42", "U+1C43", "U+1C44", "U+1C45", "U+1C46", "U+1C47", "U+1C48", "U+1C49">>,
       <<"U+1C50", "U+1C51", "U+1C52", "U+1C53", "U+1C54", "U+1C55", "U+1C56", "U+1C57", "U+1C58", "U+1C59">>,
       <<"U+A620", "U+A621", "U+A622", "U+A623", "U+A624", "U+A625", "U+A626", "U+A627", "U+A628", "U+A629">>,
       <<"U+A8D0", "U+A8D1", "U+A8D2", "U+A8D3", "U+A8D4", "U+A8D5", "U+A8D6", "U+A8D7", "U+A8D8", "U+A8D9">>,
       <<"U+A900", "U+A901", "U+A902", "U+A903", "U+A904", "U+A905", "U+A906", "U+A907", "U+A908", "U+A909">>,
       <<"U+A9D0", "U+A9D1", "U+A9D2", "U+A9D3", "U+A9D4", "U+A9D5", "U+A9D6", "U+A9D7", "U+A9D8", "U+A9D9">>,
       <<"U+A9F0", "U+A9F1", "U+A9F2", "U+A9F3", "U+A9F4", "U+A9F5", "U+A9F6", "U+A9F7", "U+A9F8", "U+A9F9">>,
       <<"U+AA50", "U+AA51", "U+AA52", "U+AA53", "U+AA54", "U+AA55", "U+AA56", "U+AA57", "U+AA58", "U+AA59">>,
       <<"U+ABF0", "U+ABF1", "U+ABF2", "U+ABF3", "U+ABF4", "U+ABF5", "U+ABF6", "U+ABF7", "U+ABF8", "U+ABF9">>,
       <<"U+FF10", "U+FF11", "U+FF12", "U+FF13", "U+FF14", "U+FF15", "U+FF16", "U+FF17", "U+FF18", "U+FF19">>,
       <<"U+104A0", "U+104A1", "U+104A2", "U+104A3", "U+104A4", "U+104A5", "U+104A6", "U+104A7", "U+104A8", "U+104A9">>,
       <<"U+10D30", "U+10D31", "U+10D32", "U+10D33", "U+10D34", "U+10D35", "U+10D36", "U+10D37", "U+10D38", "U+10D39">>,
       <<"U+11066", "U+11067", "U+11068", "U+11069", "U+1106A", "U+1106B", "U+1106C", "U+1106D", "U+1106E", "U+1106F">>,
       <<"U+110F0", "U+110F1", "U+110F2", "U+110F3", "U+110F4", "U+110F5", "U+110F6", "U+110F7", "U+110F8", "U+110F9">>,
       <<"U+11136", "U+11137", "U+11138", "U+11139", "U+1113A", "U+1113B", "U+1113C", "U+1113D", "U+1113E", "U+1113F">>,
       <<"U+111D0", "U+111D1", "U+111D2", "U+111D3", "U+111D4", "U+111D5", "U+111D6", "U+111D7", "U+111D8", "U+111D9">>,
       <<"U+112F0", "U+112F1", "U+112F2", "U+112F3", "U+112F4", "U+112F5", "U+112F6", "U+112F7", "U+112F8", "U+112F9">>,
       <<"U+11450", "U+11451", "U+11452", "U+11453", "U+11454", "U+11455", "U+11456", "U+11457", "U+11458", "U+11459">>,
       <<"U+114D0", "U+114D1", "U+114D2", "U+114D3", "U+114D4", "U+114D5", "U+114D6", "U+114D7", "U+114D8", "U+114D9">>,
       <<"U+11650", "U+11651", "U+11652", "U+11653", "U+11654", "U+11655", "U+11656", "U+11657", "U+11658", "U+11659">>,
       <<"U+116C0", "U+116C1", "U+116C2", "U+116C3", "U+116C4", "U+116C5", "U+116C6", "U+116C7", "U+116C8", "U+116C9">>,
       <<"U+11730", "U+11731", "U+11732", "U+11733", "U+11734", "U+11735", "U+11736", "U+11737", "U+11738", "U+11739">>,
       <<"U+118E0", "U+118E1", "U+118E2", "U+118E3", "U+118E4", "U+118E5", "U+118E6", "U+118E7", "U+118E8", "U+118E9">>,
       <<"U+11950", "U+11951", "U+11952", "U+11953", "U+11954", "U+11955", "U+11956", "U+11957", "U+11958", "U+11959">>,
       <<"U+11C50", "U+11C51", "U+11C52", "U+11C53", "U+11C54", "U+11C55", "U+11C56", "U+11C57", "U+11C58", "U+11C59">>,
       <<"U+11D50", "U+11D51", "U+11D52", "U+11D53", "U+11D54", "U+11D55", "U+11D56", "U+11D57", "U+11D58", "U+11D59">>,
       <<"U+11DA0", "U+11DA1", "U+11DA2", "U+11DA3", "U+11DA4", "U+11DA5", "U+11DA6", "U+11DA7", "U+11DA8", "U+11DA9">>,
       <<"U+16A60", "U+16A61", "U+16A62", "U+16A63", "U+16A64", "U+16A65", "U+16A66", "U+16A67", "U+16A68", "U+16A69">>,
       <<"U+16AC0", "U+16AC1", "U+16AC2", "U+16AC3", "U+16AC4", "U+16AC5", "U+16AC6", "U+16AC7", "U+16AC8", "U+16AC9">>,
       <<"U+16B50", "U+16B51", "U+16B52", "U+16B53", "U+16B54", "U+16B55", "U+16B56", "U+16B57", "U+16B58", "U+16B59">>,
       <<"U+1D7CE", "U+1D7CF", "U+1D7D0", "U+1D7D1", "U+1D7D2", "U+1D7D3", "U+1D7D4", "U+1D7D5", "U+1D7D6", "U+1D7D7">>,
       <<"U+1D7D8", "U+1D7D9", "U+1D7DA", "U+1D7DB", "U+1D7DC", "U+1D7DD", "U+1D7DE", "U+1D7DF", "U+1D7E0", "U+1D7E1">>,
       <<"U+1D7E2", "U+1D7E3", "U+1D7E4", "U+1D7E5", "U+1D7E6", "U+1D7E7", "U+1D7E8", "U+1D7E9", "U+1D7EA", "U+1D7EB">>,
       <<"U+1D7EC", "U+1D7ED", "U+1D7EE", "U+1D7EF", "U+1D7F0", "U+1D7F1", "U+1D7F2", "U+1D7F3", "U+1D7F4", "U+1D7F5">>,
       <<"U+1D7F6", "U+1D7F7", "U+1D7F8", "U+1D7F9", "U+1D7FA", "U+1D7FB", "U+1D7FC", "U+1D7FD", "U+1D7FE", "U+1D7FF">>,
       <<"U+1E140", "U+1E141", "U+1E142", "U+1E143", "U+1E144", "U+1E145", "U+1E146", "U+1E147", "U+1E148", "U+1E149">>,
       <<"U+1E2F0", "U+1E2F1", "U+1E2F2", "U+1E2F3", "U+1E2F4", "U+1E2F5", "U+1E2F6", "U+1E2F7", "U+1E2F8", "U+1E2F9">>,
       <<"U+1E950", "U+1E951", "U+1E952", "U+1E953", "U+1E954", "U+1E955", "U+1E956", "U+1E957", "U+1E958", "U+1E959">>,
       <<"U+1FBF0", "U+1FBF1", "U+1FBF2", "U+1FBF3", "U+1FBF4", "U+1FBF5", "U+1FBF6", "U+1FBF7", "U+1FBF8", "U+1FBF9">> >>

DecimalCifre == UNION {{Decimaler[b][i] : i \in 1..10} : b \in DOMAIN Decimaler}

IsDigit(c) == c \in DecimalCifre

\* the value int() gives the digit
DigitValue(c) == (CHOOSE i \in 1..10 : \E b \in DOMAIN Decimaler : Decimaler[b][i] = c) - 1

\* the characters \s matches in a str pattern
Whitespace ==
    { "\t", "\n", "U+000B", "\f", "\r", "U+001C", "U+001D", "U+001E",
      "U+001F", " ", "U+0085", "U+00A0", "U+1680", "U+2000", "U+2001", "U+2002",
      "U+2003", "U+2004", "U+2005", "U+2006", "U+2007", "U+2008", "U+2009", "U+200A",
      "U+2028", "U+2029", "U+202F", "U+205F", "U+3000" }

IsSpace(c) == c \in Whitespace

\* str.lower() on the letters the pattern names
Lower(c) ==
    CASE c = "J" -> "j"
      [] c = "O" -> "o"
      [] c = "B" -> "b"
      [] OTHER -> c

\* int(str) of a run of decimal digits
RECURSIVE ParseInt(_)
ParseInt(s) ==
    IF Len(s) = 0 THEN 0
    ELSE 10 * ParseInt(SubSeq(s, 1, Len(s) - 1)) + DigitValue(s[Len(s)])

\* str(int) of a non-negative integer
RECURSIVE FormatInt(_)
FormatInt(n) ==
    IF n < 10 THEN <<Cifre[n + 1]>>
    ELSE Append(FormatInt(n \div 10), Cifre[(n % 10) + 1])

(***************************************************************************)
(* re.search(r'(\d+)\s+job', krav_tekst, re.IGNORECASE)                    *)
(***************************************************************************)
\* the lengths k of t[i..i+k-1] with which the pattern matches at position i
MatchLengths(t, i) ==
    {k \in 1..(Len(t) - i + 1) :
        /\ \A p \in i..(i + k - 1) : IsDigit(t[p])
        /\ \E m \in 1..(Len(t) - i - k + 1) :
              /\ \A p \in (i + k)..(i + k + m - 1) : IsSpace(t[p])
              /\ i + k + m + 2 <= Len(t)
              /\ Lower(t[i + k + m]) = "j"
              /\ Lower(t[i + k + m + 1]) = "o"
              /\ Lower(t[i + k + m + 2]) = "b"}

NoMatch == <<"<no match>">>

\* re_search taking the rightmost match instead of the leftmost
re_search_sidste(t) ==
    LET starts == {i \in 1..Len(t) : MatchLengths(t, i) # {}}
    IN  IF starts = {} THEN NoMatch
        ELSE LET i == CHOOSE a \in starts :
                          /\ (a = 1 \/ ~IsDigit(t[a - 1]))
                          /\ \A b \in starts : b <= a \/ \A p \in a..b : IsDigit(t[p])
                 k == CHOOSE a \in MatchLengths(t, i) :
                          \A b \in MatchLengths(t, i) : b <= a
             IN  SubSeq(t, i, i + k - 1)

\* match.group(1) of the leftmost match, the greedy digit run; NoMatch when none
re_search(t) ==
    LET starts == {i \in 1..Len(t) : MatchLengths(t, i) # {}}
    IN  IF starts = {} THEN NoMatch
        ELSE LET i == CHOOSE a \in starts : \A b \in starts : a <= b
                 k == CHOOSE a \in MatchLengths(t, i) :
                          \A b \in MatchLengths(t, i) : b <= a
             IN  SubSeq(t, i, i + k - 1)

(***************************************************************************)
(* datetime: a record [y, mo, d, sek, us, aware, off], sek the second of   *)
(* the day and off the UTC offset in minutes (0 when naive).               *)
(***************************************************************************)
IsLeap(y) == (y % 4 = 0) /\ ((y % 100 # 0) \/ (y % 400 = 0))

DaysInMonth(y, m) ==
    CASE m \in {1, 3, 5, 7, 8, 10, 12} -> 31
      [] m \in {4, 6, 9, 11} -> 30
      [] OTHER -> IF IsLeap(y) THEN 29 ELSE 28

DaysBeforeYear(y) ==
    (y - 1) * 365 + ((y - 1) \div 4) - ((y - 1) \div 100) + ((y - 1) \div 400)

\* the days before the first of month m in a year that is not a leap year
DaysBeforeMonthTable == <<0, 31, 59, 90, 120, 151, 181, 212, 243, 273, 304, 334>>

DaysBeforeMonth(y, m) ==
    DaysBeforeMonthTable[m] + (IF m > 2 /\ IsLeap(y) THEN 1 ELSE 0)

\* date.toordinal()
Ordinal(y, m, d) == DaysBeforeYear(y) + DaysBeforeMonth(y, m) + d

\* date.fromordinal()
FromOrdinal(n) ==
    LET y == CHOOSE a \in (n \div 366)..((n \div 365) + 1) :
                 DaysBeforeYear(a) < n /\ n <= DaysBeforeYear(a + 1)
        r == n - DaysBeforeYear(y)
        m == CHOOSE a \in 1..12 :
                 DaysBeforeMonth(y, a) < r /\ r <= DaysBeforeMonth(y, a) + DaysInMonth(y, a)
    IN  [y |-> y, mo |-> m, d |-> r - DaysBeforeMonth(y, m)]

DateTime(y, mo, d, sek, us, aware, off) ==
    [y |-> y, mo |-> mo, d |-> d, sek |-> sek, us |-> us, aware |-> aware, off |-> off]

\* datetime.min.replace(tzinfo=timezone.utc)
DatetimeMinUtc == DateTime(1, 1, 1, 0, 0, TRUE, 0)

\* dt - timedelta(days=1)
MinusOneDay(dt) ==
    LET p == FromOrdinal(Ordinal(dt.y, dt.mo, dt.d) - 1)
    IN  [dt EXCEPT !.y = p.y, !.mo = p.mo, !.d = p.d]

\* dt - timedelta(microseconds=1)
MinusOneMicrosecond(dt) ==
    IF dt.us > 0 THEN [dt EXCEPT !.us = dt.us - 1]
    ELSE IF dt.sek > 0 THEN [dt EXCEPT !.sek = dt.sek - 1, !.us = 999999]
    ELSE [MinusOneDay(dt) EXCEPT !.sek = 86399, !.us = 999999]

\* the UTC instant of an aware datetime: what aware datetimes compare by
Instant(dt) ==
    LET dag == Ordinal(dt.y, dt.mo, dt.d)
        s == dt.sek - dt.off * 60
    IN  IF s < 0 THEN <<dag - 1, s + 86400, dt.us>>
        ELSE IF s >= 86400 THEN <<dag + 1, s - 86400, dt.us>>
        ELSE <<dag, s, dt.us>>

\* a <= b on instants
InstantLE(a, b) ==
    \/ a[1] < b[1]
    \/ a[1] = b[1] /\ a[2] < b[2]
    \/ a[1] = b[1] /\ a[2] = b[2] /\ a[3] <= b[3]

(***************************************************************************)
(* A timestamp field of a job-log entry: [kind, y, mo, d, sek, us, tz].    *)
(* kind "none": the field is missing; "str": an ISO-8601 string whose      *)
(* suffix is tz ("Z", "+00:00", "+01:00", "-01:00", or "" for none);       *)
(* "datetime": a native datetime whose tzinfo is tz ("" when naive).       *)
(***************************************************************************)
TsNone == [kind |-> "none", y |-> 0, mo |-> 0, d |-> 0, sek |-> 0, us |-> 0, tz |-> ""]

Ts(kind, y, mo, d, sek, us, tz) ==
    [kind |-> kind, y |-> y, mo |-> mo, d |-> d, sek |-> sek, us |-> us, tz |-> tz]

\* the minutes of a "+HH:MM" suffix
OffsetMinutes(tz) ==
    CASE tz = "+00:00" -> 0
      [] tz = "+01:00" -> 60
      [] tz = "-01:00" -> -60

\* MomentumService.__parse_date
parse_date(date_str) ==
    IF date_str.kind = "datetime"
    THEN DateTime(date_str.y, date_str.mo, date_str.d, date_str.sek, date_str.us,
                  date_str.tz # "", IF date_str.tz = "" THEN 0 ELSE OffsetMinutes(date_str.tz))
    ELSE IF date_str.kind = "str"
    THEN LET iso == IF date_str.tz = "Z" THEN "+00:00" ELSE date_str.tz
         IN  DateTime(date_str.y, date_str.mo, date_str.d, date_str.sek, date_str.us,
                      iso # "", IF iso = "" THEN 0 ELSE OffsetMinutes(iso))
    ELSE DatetimeMinUtc

\* start_dato of hent_joblog_aktiviteter
start_dato(nu) ==
    [MinusOneDay([nu EXCEPT !.d = 1]) EXCEPT !.d = 1, !.sek = 0, !.us = 0]

\* slut_dato without the microsecond taken off
slut_dato_uden_fradrag(nu) == [nu EXCEPT !.d = 1, !.sek = 0, !.us = 0]

\* slut_dato of hent_joblog_aktiviteter
slut_dato(nu) ==
    MinusOneMicrosecond([nu EXCEPT !.d = 1, !.sek = 0, !.us = 0])

\* start <= x <= slut, for an aware x
Within(start, slut, x) ==
    /\ InstantLE(Instant(start), Instant(x))
    /\ InstantLE(Instant(x), Instant(slut))

\* the comparison of the aware window with a naive datetime raises TypeError
RaisesTypeError(start, slut, entry) ==
    \/ ~parse_date(entry.submissionDate).aware
    \/ /\ Within(start, slut, parse_date(entry.submissionDate))
       /\ ~parse_date(entry.updatedAt).aware

\* the condition of the list comprehension tidligere_måneds_joblog
InPeriod(start, slut, entry) ==
    /\ Within(start, slut, parse_date(entry.submissionDate))
    /\ Within(start, slut, parse_date(entry.updatedAt))

\* the list comprehension tidligere_måneds_joblog, when no comparison raises
i_perioden(nu, log) ==
    LET start == start_dato(nu)
        slut == slut_dato(nu)
    IN  SelectSeq(log, LAMBDA entry : InPeriod(start, slut, entry))

\* a comparison of the list comprehension raises TypeError
comparison_raises(nu, log) ==
    LET start == start_dato(nu)
        slut == slut_dato(nu)
    IN  \E i \in 1..Len(log) : RaisesTypeError(start, slut, log[i])

(***************************************************************************)
(* A key field of a job-log entry: [kind, s, n].  kind "absent": the key   *)
(* is not in the entry; "null": it is there with value None; "str": the    *)
(* text s; "int": the number n.                                            *)
(***************************************************************************)
FeltAbsent == [kind |-> "absent", s |-> <<>>, n |-> 0]
FeltNull == [kind |-> "null", s |-> <<>>, n |-> 0]
FeltStr(s) == [kind |-> "str", s |-> s, n |-> 0]
FeltInt(n) == [kind |-> "int", s |-> <<>>, n |-> n]

\* the text an f-string puts for joblog_entry.get(key, '')
Format(v) ==
    CASE v.kind = "absent" -> <<>>
      [] v.kind = "null" -> <<"N", "o", "n", "e">>
      [] v.kind = "str" -> v.s
      [] v.kind = "int" -> FormatInt(v.n)

\* job_hash without the distance
job_hash_uden_afstand(joblog_entry) ==
    Format(joblog_entry.title) \o <<" ">> \o Format(joblog_entry.companyName) \o <<" ">>
    \o Format(joblog_entry.companyPostCode) \o <<" ">> \o Format(joblog_entry.companyTown)

job_hash(joblog_entry) ==
    Format(joblog_entry.title) \o <<" ">> \o Format(joblog_entry.companyName) \o <<" ">>
    \o Format(joblog_entry.companyPostCode) \o <<" ">> \o Format(joblog_entry.companyTown)
    \o <<" ">> \o Format(joblog_entry.distanceToCompanyInMeters)

\* the loop over tidligere_måneds_joblog: the keys of unikke_jobs, in insertion order
RECURSIVE unikke_jobs(_)
unikke_jobs(log) ==
    IF log = <<>> THEN <<>>
    ELSE LET foer == unikke_jobs(SubSeq(log, 1, Len(log) - 1))
             h == job_hash(log[Len(log)])
         IN  IF \E i \in 1..Len(foer) : foer[i] = h THEN foer ELSE Append(foer, h)

\* the value hent_joblog_aktiviteter returns for a fetched, non-empty log
antal_sogte_jobs_af(nu, log) == Len(unikke_jobs(i_perioden(nu, log)))

(***************************************************************************)
(* External calls, as the entries of kald.                                 *)
(***************************************************************************)
Kald(op) == [op |-> op, gruppe |-> "", tekst |-> ""]

OpretOpgave(beskrivelse) == [op |-> "opret_opgave", gruppe |-> "", tekst |-> beskrivelse]

Report(group, beskrivelse) == [op |-> "report", gruppe |-> group, tekst |-> beskrivelse]

ItemFail(msg) == [op |-> "item.fail", gruppe |-> "", tekst |-> msg]

BeskrivelseFritaget ==
    "Der skal ikke tjekkes mere, da borger er fritaget for brug af joblog."

BeskrivelseIkkeFundet == "'Krav til jobsøgning' blev ikke fundet."

BeskrivelseMangler ==
    "Der mangler oplysninger om antallet af jobs i 'Krav til jobsøgning'."

BeskrivelseIngenJobs == "Der var ikke registreret nogen jobs i joblog."

BeskrivelseForFaa == "Der er registreret for få job i joblog."

\* what a call of a MomentumService method did: the exception it raised ("" when
\* it returned), the exception's message, the external calls it made, the value
\* it returned and the branch it took
Resultat(ex, msg, k, retur, gren) ==
    [ex |-> ex, msg |-> msg, kald |-> k, retur |-> retur, udfald |-> gren]

(***************************************************************************)
(* MomentumService.opret_opgave_til_sagsbehandler.  medarbejder: whether   *)
(* hent_sagsbehandler("dorf") finds the caseworker.                        *)
(***************************************************************************)
\* opret_opgave_til_sagsbehandler without the check of the lookup
opret_opgave_uden_kontrol(medarbejder, beskrivelse) ==
    Resultat("", "", <<Kald("hent_sagsbehandler"), OpretOpgave(beskrivelse)>>, Ingen, "")

opret_opgave_til_sagsbehandler(medarbejder, beskrivelse) ==
    IF ~medarbejder
    THEN Resultat("WorkItemError", "Sagsbehandler 'dorf' ikke fundet i Momentum.",
                  <<Kald("hent_sagsbehandler")>>, Ingen, "")
    ELSE Resultat("", "", <<Kald("hent_sagsbehandler"), OpretOpgave(beskrivelse)>>, Ingen, "")

\* a branch that creates a task, reports it as "Behandlet" and tracks a full task
opgave_report_track(medarbejder, beskrivelse, foer, gren) ==
    LET o == opret_opgave_til_sagsbehandler(medarbejder, beskrivelse)
    IN  IF o.ex # "" THEN Resultat(o.ex, o.msg, foer \o o.kald, Ingen, "")
        ELSE Resultat("", "",
                      foer \o o.kald \o <<Report("Behandlet", beskrivelse), Kald("track_task")>>,
                      Ingen, gren)

(***************************************************************************)
(* The retry policy of _hent_personvisitationstatus_med_retry.             *)
(***************************************************************************)
\* stop_after_attempt that stops one attempt late
stop_efter_et_forsoeg_mere(n) == n > MaxForsoeg

\* stop_after_attempt(10), asked after attempt number n failed
stop_after_attempt(n) == n >= MaxForsoeg

\* retry_if_exception_type(HTTPError)
retry_if_exception_type(ex) == ex = "HTTPError"

(***************************************************************************)
(* MomentumService.fritaget_for_joblog, from the point where the fetch     *)
(* returned.  pvs: [kind, navne], kind "None" when there is no status      *)
(* record, navne the personExemptNames.                                    *)
(***************************************************************************)
fritaget_kald ==
    <<Report("Manuel behandling", BeskrivelseFritaget), Kald("track_partial_task")>>

\* fritaget_for_joblog asking for the category to be the only one
fritaget_kun_den_ene(pvs) ==
    IF pvs.kind = "None"
    THEN Resultat("WorkItemError",
                  "Personvisitationstatus for borger med CPR {cpr} ikke fundet i Momentum.",
                  <<>>, FALSE, "")
    ELSE IF pvs.navne = {"Brug af Joblog"}
    THEN Resultat("", "", fritaget_kald, TRUE, "Exempt")
    ELSE Resultat("", "", <<>>, FALSE, "")

fritaget_for_joblog(pvs) ==
    IF pvs.kind = "None"
    THEN Resultat("WorkItemError",
                  "Personvisitationstatus for borger med CPR {cpr} ikke fundet i Momentum.",
                  <<>>, FALSE, "")
    ELSE IF pvs.navne # {} /\ "Brug af Joblog" \in pvs.navne
    THEN Resultat("", "", fritaget_kald, TRUE, "Exempt")
    ELSE Resultat("", "", <<>>, FALSE, "")

(***************************************************************************)
(* MomentumService.hent_krav_til_jobsøgning.  jd: [kind, tekst], kind      *)
(* "None" when there is no record, "mangler" when otherExpectations is     *)
(* None, "tekst" when it is the text tekst.                                *)
(***************************************************************************)
\* hent_krav_til_jobsøgning without the tracking call of the zero branch
hent_krav_uden_track(jd, medarbejder) ==
    LET hent == <<Kald("hent_jobsøgningsdefinition")>>
    IN  IF jd.kind = "None"
        THEN Resultat("WorkItemError",
                      "Jobsøgningsdefinition for borger med CPR {cpr} ikke fundet i Momentum.",
                      hent, Ingen, "")
        ELSE IF jd.kind = "mangler" \/ Len(jd.tekst) = 0
        THEN opgave_report_track(medarbejder, BeskrivelseIkkeFundet, hent,
                                 "RequirementNotFound")
        ELSE LET match == re_search(jd.tekst)
             IN  IF match = NoMatch
                 THEN opgave_report_track(medarbejder, BeskrivelseMangler, hent,
                                          "RequirementIndeterminate")
                 ELSE LET krav_antal == ParseInt(match)
                      IN  IF krav_antal = 0
                          THEN Resultat("", "", hent, Ingen, "RequirementZero")
                          ELSE Resultat("", "", hent, krav_antal, "")

hent_krav_til_jobsogning(jd, medarbejder) ==
    LET hent == <<Kald("hent_jobsøgningsdefinition")>>
    IN  IF jd.kind = "None"
        THEN Resultat("WorkItemError",
                      "Jobsøgningsdefinition for borger med CPR {cpr} ikke fundet i Momentum.",
                      hent, Ingen, "")
        ELSE IF jd.kind = "mangler" \/ Len(jd.tekst) = 0
        THEN opgave_report_track(medarbejder, BeskrivelseIkkeFundet, hent,
                                 "RequirementNotFound")
        ELSE LET match == re_search(jd.tekst)
             IN  IF match = NoMatch
                 THEN opgave_report_track(medarbejder, BeskrivelseMangler, hent,
                                          "RequirementIndeterminate")
                 ELSE LET krav_antal == ParseInt(match)
                      IN  IF krav_antal = 0
                          THEN Resultat("", "", hent \o <<Kald("track_partial_task")>>,
                                        Ingen, "RequirementZero")
                          ELSE Resultat("", "", hent, krav_antal, "")

(***************************************************************************)
(* MomentumService.hent_joblog_aktiviteter.  log: [kind, entries], kind    *)
(* "None" when there is no log.                                            *)
(***************************************************************************)
hent_joblog_aktiviteter(nu, log) ==
    LET hent == <<Kald("hent_joblog")>>
    IN  IF log.kind = "None" \/ Len(log.entries) = 0
        THEN Resultat("WorkItemError",
                      "Joblog for borger med CPR {cpr} ikke fundet i Momentum.",
                      hent, Ingen, "")
        ELSE IF comparison_raises(nu, log.entries)
        THEN Resultat("TypeError", "can't compare offset-naive and offset-aware datetimes",
                      hent, Ingen, "")
        ELSE Resultat("", "", hent, antal_sogte_jobs_af(nu, log.entries), "")

(***************************************************************************)
(* MomentumService.kontroller_jobsøgning                                   *)
(***************************************************************************)
\* kontroller_jobsøgning with <= for <
kontroller_mindre_eller_lig(krav, antal, medarbejder) ==
    IF krav > 0 /\ antal = 0
    THEN opgave_report_track(medarbejder, BeskrivelseIngenJobs, <<>>, "NoActivityRegistered")
    ELSE IF antal <= krav
    THEN opgave_report_track(medarbejder, BeskrivelseForFaa, <<>>, "InsufficientActivity")
    ELSE Resultat("", "", <<>>, Ingen, "Compliant")

kontroller_jobsogning(krav, antal, medarbejder) ==
    IF krav > 0 /\ antal = 0
    THEN opgave_report_track(medarbejder, BeskrivelseIngenJobs, <<>>, "NoActivityRegistered")
    ELSE IF antal < krav
    THEN opgave_report_track(medarbejder, BeskrivelseForFaa, <<>>, "InsufficientActivity")
    ELSE Resultat("", "", <<>>, Ingen, "Compliant")

(***************************************************************************)
(* What the external system may answer.                                    *)
(***************************************************************************)
\* hent_personvisitationstatus
Personvisitationstatusser ==
    {[kind |-> "None", navne |-> {}]}
    \cup {[kind |-> "dict", navne |-> n] : n \in SUBSET {"Brug af Joblog", "Barsel"}}

JobDefinition(kind, tekst) == [kind |-> kind, tekst |-> tekst]

\* otherExpectations texts of the driving loop's runs
KravTekster ==
    { <<>>,
      <<"S", "k", "a", "l", " ", "s", "ø", "g", "e", " ", "5", " ", "j", "o", "b", "s", " ", "o", "m", " ", "m", "å", "n", "e", "d", "e", "n">>,
      <<"I", "n", "g", "e", "n", " ", "k", "r", "a", "v">>,
      <<"0", " ", "j", "o", "b">>,
      <<"4", " ", "j", "o", "b", " ", "p", "r", " ", "m", "å", "n", "e", "d">>,
      <<"2", " ", "J", "O", "B">>,
      <<"1", " ", "j", "o", "b">>,
      <<"5", "j", "o", "b">> }

Alfabet == {"0", "5", " ", "j", "J", "o", "b"}

\* every text over Alfabet of at most MaxTekstLen characters, and some longer ones
AlleTekster ==
    SeqsUpTo(Alfabet, MaxTekstLen) \cup KravTekster
    \cup { <<"0", " ", "j", "o", "b", " ", "5", " ", "j", "o", "b">>,
           <<"1", " ", "2", " ", "j", "o", "b">>,
           <<"M", "i", "n", "d", "s", "t", " ", "1", "2", "\t", "J", "o", "b", "s">>,
           <<"j", "o", "b", " ", "5">>,
           <<"0", "0", " ", "j", "o", "b", " ", "7", " ", "j", "o", "b">>,
           <<"5", "U+00A0", "j", "o", "b">>,
           <<"5", "U+000B", "j", "o", "b">>,
           <<"U+0665", " ", "j", "o", "b">>,
           <<"U+0660", "U+2003", "J", "O", "B">>,
           <<"1", "U+0662", "\n", "U+3000", "j", "o", "b", "s">>,
           <<"U+0665", "j", "o", "b">>,
           <<"5", "U+200B", "j", "o", "b">> }

JobDefinitioner(tekster) ==
    {JobDefinition("None", <<>>), JobDefinition("mangler", <<>>)}
    \cup {JobDefinition("tekst", x) : x \in tekster}

\* the wall clocks of the window cases of hent_joblog_aktiviteter
Nu1 == DateTime(2024, 1, 15, 37800, 0, TRUE, 0)
Nu2 == DateTime(2024, 3, 31, 86399, 999999, TRUE, 0)
Nu3 == DateTime(2023, 3, 1, 0, 0, TRUE, 0)
IngenTid == DateTime(0, 0, 0, 0, 0, FALSE, 0)

Entry(sub, upd, title, company, postcode, town, distance) ==
    [submissionDate |-> sub, updatedAt |-> upd, title |-> title, companyName |-> company,
     companyPostCode |-> postcode, companyTown |-> town,
     distanceToCompanyInMeters |-> distance]

\* timestamps at and around the bounds of December 2023 and February 2024
Tidsstempler ==
    { Ts("str", 2023, 12, 1, 0, 0, "Z"),
      Ts("str", 2023, 11, 30, 86399, 999999, "Z"),
      Ts("str", 2023, 12, 31, 86399, 999999, "Z"),
      Ts("str", 2024, 1, 1, 0, 0, "Z"),
      Ts("str", 2023, 12, 15, 43200, 0, "+00:00"),
      Ts("str", 2024, 2, 1, 0, 0, "Z"),
      Ts("str", 2024, 1, 31, 86399, 999999, "Z"),
      Ts("str", 2024, 2, 29, 86399, 999999, "Z"),
      Ts("str", 2024, 3, 1, 0, 0, "Z"),
      Ts("str", 2023, 12, 1, 1800, 0, "+01:00"),
      Ts("str", 2024, 1, 1, 1800, 0, "+01:00"),
      Ts("str", 2023, 12, 31, 84600, 0, "-01:00"),
      Ts("datetime", 2023, 12, 10, 28800, 0, "+00:00"),
      Ts("str", 2023, 12, 10, 28800, 0, ""),
      TsNone }

TsMidt == Ts("str", 2023, 12, 15, 43200, 0, "+00:00")
TsStart == Ts("str", 2023, 12, 1, 0, 0, "Z")
TsSlut == Ts("str", 2023, 12, 31, 86399, 999999, "Z")
TsEfter == Ts("str", 2024, 1, 1, 0, 0, "Z")
TsNaiv == Ts("str", 2023, 12, 10, 28800, 0, "")

BasisEntry ==
    Entry(TsMidt, TsMidt, FeltStr(<<"A">>), FeltStr(<<"B">>),
          FeltStr(<<"5", "0", "0", "0">>), FeltStr(<<"C">>), FeltInt(100))

Felter ==
    {"title", "companyName", "companyPostCode", "companyTown", "distanceToCompanyInMeters"}

\* the entries of the window cases: every pair of timestamps, one composite key
VindueEntries ==
    {[BasisEntry EXCEPT !.submissionDate = a, !.updatedAt = b] :
        a \in Tidsstempler, b \in Tidsstempler}

\* the composite-key cases: BasisEntry with one field changed
NoegleEntries ==
    {BasisEntry}
    \cup {[BasisEntry EXCEPT ![f] = FeltStr(<<"X">>)] : f \in Felter}
    \cup { [BasisEntry EXCEPT !.title = FeltAbsent],
           [BasisEntry EXCEPT !.distanceToCompanyInMeters = FeltAbsent],
           [BasisEntry EXCEPT !.title = FeltStr(<<"A", " ", "B">>)],
           [BasisEntry EXCEPT !.companyName = FeltStr(<<"B", " ", "B">>)],
           [BasisEntry EXCEPT !.title = FeltNull],
           [BasisEntry EXCEPT !.distanceToCompanyInMeters = FeltStr(<<"1", "0", "0">>)] }

\* the entries of the deduplication cases: the keys, some of them a second time
\* at another place of the window, and one entry outside the window
DedupEntries ==
    NoegleEntries
    \cup {[e EXCEPT !.submissionDate = TsStart, !.updatedAt = TsSlut] :
             e \in { BasisEntry,
                     [BasisEntry EXCEPT !.title = FeltStr(<<"X">>)],
                     [BasisEntry EXCEPT !.distanceToCompanyInMeters = FeltAbsent] }}
    \cup {[BasisEntry EXCEPT !.submissionDate = TsEfter, !.updatedAt = TsEfter]}

Joblog(kind, entries) == [kind |-> kind, entries |-> entries]

\* the job logs of the driving loop's runs
Joblogs ==
    LET ind1 == BasisEntry
        ind2 == [BasisEntry EXCEPT !.title = FeltStr(<<"X">>)]
        ind3 == [BasisEntry EXCEPT !.companyName = FeltStr(<<"X">>)]
        igen == [BasisEntry EXCEPT !.submissionDate = TsStart, !.updatedAt = TsSlut]
        ude == [BasisEntry EXCEPT !.submissionDate = TsEfter, !.updatedAt = TsEfter]
        naiv == [BasisEntry EXCEPT !.submissionDate = TsNaiv]
    IN  { Joblog("None", <<>>), Joblog("list", <<>>), Joblog("list", <<ude>>),
          Joblog("list", <<ind1>>), Joblog("list", <<ind1, igen>>),
          Joblog("list", <<ind1, ude, ind2>>), Joblog("list", <<ind1, ind2, ind3, ude>>),
          Joblog("list", <<ind1, naiv>>) }

\* the job logs of the window cases: one entry each, the filter being entry by
\* entry
VindueLogs == {Joblog("list", <<e>>) : e \in VindueEntries}

\* the job logs of the deduplication cases
DedupLogs == {Joblog("list", x) : x \in SeqsUpTo(DedupEntries, MaxDedupLog) \ {<<>>}}

(***************************************************************************)
(* Queue management: main with "--queue", and populate_queue.              *)
(***************************************************************************)
\* the CPR numbers of the citizens hent_borgere returns
Cpr == {"0101701234", "0202805678"}

\* what hent_borgere returns: None, or a dict whose 'data' lists citizens
UhentedeBorgere == [kind |-> "uhentet", data |-> <<>>]

Borgere ==
    {[kind |-> "None", data |-> <<>>]}
    \cup {[kind |-> "dict", data |-> d] : d \in SeqsUpTo(Cpr, MaxQueue)}

\* the wall clocks of the runs, in order: the first instant of January 2024, a
\* time later in that month, a time in the month after
Ure ==
    << DateTime(2024, 1, 1, 0, 0, FALSE, 0),
       DateTime(2024, 1, 15, 37800, 0, FALSE, 0),
       DateTime(2024, 2, 2, 28800, 0, FALSE, 0) >>

\* datetime.now(timezone.utc) at the wall clock u
utc_now(u) == [u EXCEPT !.aware = TRUE, !.off = 0]

\* datetime.now() at the wall clock u, the machine's time zone being UTC
local_now(u) == [u EXCEPT !.aware = FALSE, !.off = 0]

\* datetime.now().replace(day=1, hour=0, minute=0, second=0, microsecond=0)
maanedens_start(nu) == [nu EXCEPT !.d = 1, !.sek = 0, !.us = 0]

\* a > b on naive datetimes
Senere(a, b) == ~InstantLE(Instant(a), Instant(b))

\* eksisterende_kødata after its filter: the completed items of the reference
\* that were updated after the start of the month
eksisterende_koedata(cpr, st, ref, upd, nu) ==
    {i \in 1..Len(st) :
        /\ ref[i] = cpr
        /\ st[i] = "completed"
        /\ Senere(upd[i], maanedens_start(nu))}

\* populate_queue: the references it adds to the queue, in order
populate_queue(hentet, st, ref, upd, nu) ==
    IF hentet.kind = "None" \/ Len(hentet.data) = 0 THEN <<>>
    ELSE SelectSeq(hentet.data,
                   LAMBDA cpr : eksisterende_koedata(cpr, st, ref, upd, nu) = {})

\* the fields x of the items that are not "new"
RECURSIVE clear_workqueue(_, _)
clear_workqueue(st, x) ==
    IF Len(st) = 0 THEN <<>>
    ELSE (IF Head(st) = "new" THEN <<>> ELSE <<Head(x)>>)
         \o clear_workqueue(Tail(st), Tail(x))

(***************************************************************************)
(* process_workqueue                                                       *)
(***************************************************************************)
\* the variables of one pass, before its first call
NytPass ==
    /\ kald' = <<>>
    /\ forsoeg' = 0
    /\ sidste_forsoeg' = ""
    /\ personvisitationstatus' = [kind |-> "uhentet", navne |-> {}]
    /\ sagsbehandler' = "uhentet"
    /\ job_definition' = JobDefinition("uhentet", <<>>)
    /\ krav_til_jobsogning' = Ingen
    /\ now' = IngenTid
    /\ joblog' = Joblog("uhentet", <<>>)
    /\ tidligere_maaneds_joblog' = <<>>
    /\ antal_sogte_jobs' = Ingen
    /\ udfald' = ""
    /\ fejl' = ""

\* the variables of the pass, between two runs of the program
UdenPass ==
    /\ kald = <<>>
    /\ forsoeg = 0
    /\ sidste_forsoeg = ""
    /\ personvisitationstatus = [kind |-> "uhentet", navne |-> {}]
    /\ sagsbehandler = "uhentet"
    /\ job_definition = JobDefinition("uhentet", <<>>)
    /\ krav_til_jobsogning = Ingen
    /\ now = IngenTid
    /\ joblog = Joblog("uhentet", <<>>)
    /\ tidligere_maaneds_joblog = <<>>
    /\ antal_sogte_jobs = Ingen
    /\ udfald = ""
    /\ fejl = ""

\* the program is about to start, on an empty work queue
Init ==
    /\ status = <<>>
    /\ reference = <<>>
    /\ updated_at = <<>>
    /\ ur = Ure[1]
    /\ borgere = UhentedeBorgere
    /\ idx = 0
    /\ pc = "main"
    /\ UdenPass

\* time passes between two runs of the program
Tik ==
    /\ pc = "main"
    /\ \E i \in 1..(Len(Ure) - 1) : ur = Ure[i] /\ ur' = Ure[i + 1]
    /\ UNCHANGED <<borgere, status, reference, updated_at, idx, pc, kald, forsoeg, sidste_forsoeg,
                   personvisitationstatus, sagsbehandler, job_definition,
                   krav_til_jobsogning, now, joblog, tidligere_maaneds_joblog,
                   antal_sogte_jobs, udfald, fejl>>

\* "--queue" in sys.argv: workqueue.clear_workqueue(WorkItemStatus.NEW)
ClearWorkqueue ==
    /\ pc = "main"
    /\ status' = clear_workqueue(status, status)
    /\ reference' = clear_workqueue(status, reference)
    /\ updated_at' = clear_workqueue(status, updated_at)
    /\ pc' = "populate"
    /\ borgere' = UhentedeBorgere
    /\ UNCHANGED <<ur, idx, kald, forsoeg, sidste_forsoeg, personvisitationstatus,
                   sagsbehandler, job_definition, krav_til_jobsogning, now, joblog,
                   tidligere_maaneds_joblog, antal_sogte_jobs, udfald, fejl>>

\* asyncio.run(populate_queue(workqueue)); exit(0)
PopulateQueue ==
    /\ pc = "populate"
    /\ \E b \in Borgere :
          LET nye == populate_queue(b, status, reference, updated_at, local_now(ur))
          IN  /\ Len(status) + Len(nye) <= MaxQueue
              /\ borgere' = b
              /\ status' = status \o [i \in 1..Len(nye) |-> "new"]
              /\ reference' = reference \o nye
              /\ updated_at' = updated_at \o [i \in 1..Len(nye) |-> ur]
    /\ pc' = "main"
    /\ UNCHANGED <<ur, idx, kald, forsoeg, sidste_forsoeg, personvisitationstatus,
                   sagsbehandler, job_definition, krav_til_jobsogning, now, joblog,
                   tidligere_maaneds_joblog, antal_sogte_jobs, udfald, fejl>>

\* no "--queue": asyncio.run(process_workqueue(workqueue))
ProcessWorkqueue ==
    /\ pc = "main"
    /\ pc' = "loop"
    /\ borgere' = UhentedeBorgere
    /\ UNCHANGED <<status, reference, updated_at, ur, idx, kald, forsoeg, sidste_forsoeg,
                   personvisitationstatus, sagsbehandler, job_definition,
                   krav_til_jobsogning, now, joblog, tidligere_maaneds_joblog,
                   antal_sogte_jobs, udfald, fejl>>

\* the run of process_workqueue is over, returned or raised: the program ends
ProgramSlut ==
    /\ pc \in {"done", "aborted"}
    /\ pc' = "main"
    /\ idx' = 0
    /\ NytPass
    /\ UNCHANGED <<status, reference, updated_at, ur, borgere>>

\* the item the iteration of the work queue yields: the first that is "new"
next_item(st) ==
    LET nye == {i \in 1..Len(st) : st[i] = "new"}
    IN  IF nye = {} THEN 0 ELSE CHOOSE i \in nye : \A j \in nye : i <= j

\* for item in workqueue: with item:
NextItem ==
    /\ pc = "loop"
    /\ next_item(status) # 0
    /\ idx' = next_item(status)
    /\ status' = [status EXCEPT ![next_item(status)] = "in_progress"]
    /\ updated_at' = [updated_at EXCEPT ![next_item(status)] = ur]
    /\ pc' = "hent_borger"
    /\ NytPass
    /\ UNCHANGED <<reference, ur, borgere>>

\* the queue is exhausted: process_workqueue returns
LoopEnd ==
    /\ pc = "loop"
    /\ next_item(status) = 0
    /\ pc' = "done"
    /\ UNCHANGED <<status, reference, updated_at, ur, borgere, idx, kald, forsoeg, sidste_forsoeg, personvisitationstatus,
                   sagsbehandler, job_definition, krav_til_jobsogning, now, joblog,
                   antal_sogte_jobs, tidligere_maaneds_joblog, udfald, fejl>>

\* where a pass goes after a call that ended as res: a WorkItemError is caught
\* and the item failed; any other exception leaves the try, the with and the
\* loop; with slut the pass is over (continue, or the end of the body) and the
\* item completes; otherwise the pass goes on at naeste
Fortsaet(res, slut, naeste) ==
    /\ idx' = idx
    /\ UNCHANGED <<reference, ur, borgere>>
    /\ updated_at' = IF res.ex # "" \/ slut THEN [updated_at EXCEPT ![idx] = ur]
                     ELSE updated_at
    /\ IF res.ex = "WorkItemError"
       THEN /\ kald' = kald \o res.kald \o <<ItemFail(res.msg)>>
            /\ status' = [status EXCEPT ![idx] = "failed"]
            /\ pc' = "loop"
            /\ udfald' = ""
            /\ fejl' = res.msg
       ELSE IF res.ex # ""
       THEN /\ kald' = kald \o res.kald
            /\ status' = [status EXCEPT ![idx] = "failed"]
            /\ pc' = "aborted"
            /\ udfald' = ""
            /\ fejl' = res.ex
       ELSE IF slut
       THEN /\ kald' = kald \o res.kald
            /\ status' = [status EXCEPT ![idx] = "completed"]
            /\ pc' = "loop"
            /\ udfald' = res.udfald
            /\ fejl' = ""
       ELSE /\ kald' = kald \o res.kald
            /\ pc' = naeste
            /\ UNCHANGED <<status, udfald, fejl>>

\* what hent_sagsbehandler returned, if res called it
Opslag(res, fundet) ==
    IF \E i \in 1..Len(res.kald) : res.kald[i].op = "hent_sagsbehandler"
    THEN (IF fundet THEN "fundet" ELSE "None")
    ELSE sagsbehandler

\* borger = momentum.borgere.hent_borger(cpr=item.reference)
HentBorger ==
    /\ pc = "hent_borger"
    /\ \E fundet \in BOOLEAN :
          LET res == IF fundet
                     THEN Resultat("", "", <<Kald("hent_borger")>>, Ingen, "")
                     ELSE Resultat("WorkItemError",
                                   "Borger med CPR {cpr} ikke fundet i Momentum.",
                                   <<Kald("hent_borger")>>, Ingen, "")
          IN  Fortsaet(res, FALSE, "status")
    /\ UNCHANGED <<forsoeg, sidste_forsoeg, personvisitationstatus, sagsbehandler,
                   job_definition, krav_til_jobsogning, now, joblog, antal_sogte_jobs, tidligere_maaneds_joblog>>

\* an attempt of _hent_personvisitationstatus_med_retry that raises
StatusFejler ==
    /\ pc = "status"
    /\ \E ex \in {"HTTPError", "ConnectionError"} :
          /\ forsoeg' = forsoeg + 1
          /\ sidste_forsoeg' = ex
          /\ IF retry_if_exception_type(ex) /\ ~stop_after_attempt(forsoeg + 1)
             THEN Fortsaet(Resultat("", "", <<Kald("hent_personvisitationstatus")>>, Ingen, ""),
                           FALSE, "status")
             ELSE Fortsaet(Resultat(ex, "", <<Kald("hent_personvisitationstatus")>>, Ingen, ""),
                           FALSE, "status")
    /\ UNCHANGED <<personvisitationstatus, sagsbehandler, job_definition,
                   krav_til_jobsogning, now, joblog, antal_sogte_jobs, tidligere_maaneds_joblog>>

\* an attempt that returns, and the rest of fritaget_for_joblog
Fritaget ==
    /\ pc = "status"
    /\ \E pvs \in Personvisitationstatusser :
          LET r == fritaget_for_joblog(pvs)
              res == [r EXCEPT !.kald = <<Kald("hent_personvisitationstatus")>> \o @]
          IN  /\ forsoeg' = forsoeg + 1
              /\ sidste_forsoeg' = "ok"
              /\ personvisitationstatus' = pvs
              /\ Fortsaet(res, res.retur, "krav")
    /\ UNCHANGED <<sagsbehandler, job_definition, krav_til_jobsogning, now, joblog,
                   antal_sogte_jobs, tidligere_maaneds_joblog>>

\* krav_til_jobsøgning = momentum_service.hent_krav_til_jobsøgning(borger)
HentKrav(tekster) ==
    /\ pc = "krav"
    /\ \E jd \in JobDefinitioner(tekster), fundet \in BOOLEAN :
          \E res \in {hent_krav_til_jobsogning(jd, fundet)} :
              /\ job_definition' = jd
              /\ sagsbehandler' = Opslag(res, fundet)
              /\ krav_til_jobsogning' = res.retur
              /\ Fortsaet(res, res.retur = Ingen, "joblog")
    /\ UNCHANGED <<forsoeg, sidste_forsoeg, personvisitationstatus, now, joblog,
                   antal_sogte_jobs, tidligere_maaneds_joblog>>

\* antal_søgte_jobs = momentum_service.hent_joblog_aktiviteter(borger)
HentJoblog(logs) ==
    /\ pc = "joblog"
    /\ \E nu \in {utc_now(ur)}, log \in logs :
          \E res \in {hent_joblog_aktiviteter(nu, log)} :
              /\ joblog' = log
              /\ now' = IF res.ex = "WorkItemError" THEN IngenTid ELSE nu
              /\ tidligere_maaneds_joblog' =
                     IF res.ex = "" THEN i_perioden(nu, log.entries) ELSE <<>>
              /\ antal_sogte_jobs' = res.retur
              /\ Fortsaet(res, FALSE, "kontrol")
    /\ UNCHANGED <<forsoeg, sidste_forsoeg, personvisitationstatus, sagsbehandler,
                   job_definition, krav_til_jobsogning>>

\* momentum_service.kontroller_jobsøgning(...), the end of the loop body
Kontroller ==
    /\ pc = "kontrol"
    /\ \E fundet \in BOOLEAN :
          \E res \in {kontroller_jobsogning(krav_til_jobsogning, antal_sogte_jobs, fundet)} :
              /\ sagsbehandler' = Opslag(res, fundet)
              /\ Fortsaet(res, TRUE, "loop")
    /\ UNCHANGED <<forsoeg, sidste_forsoeg, personvisitationstatus, job_definition,
                   krav_til_jobsogning, now, joblog, antal_sogte_jobs, tidligere_maaneds_joblog>>

Next ==
    \/ Tik
    \/ ClearWorkqueue
    \/ PopulateQueue
    \/ ProcessWorkqueue
    \/ ProgramSlut
    \/ NextItem
    \/ LoopEnd
    \/ HentBorger
    \/ StatusFejler
    \/ Fritaget
    \/ HentKrav(KravTekster)
    \/ HentJoblog(Joblogs)
    \/ Kontroller

Spec == Init /\ [][Next]_vars

(***************************************************************************)
(* hent_krav_til_jobsøgning on every text of AlleTekster: one pass that is *)
(* about to call it.                                                       *)
(***************************************************************************)
InitKrav ==
    /\ status = <<"in_progress">>
    /\ reference = <<"0101701234">>
    /\ updated_at = <<Ure[2]>>
    /\ ur = Ure[2]
    /\ borgere = UhentedeBorgere
    /\ idx = 1
    /\ pc = "krav"
    /\ kald = <<Kald("hent_borger"), Kald("hent_personvisitationstatus")>>
    /\ forsoeg = 1
    /\ sidste_forsoeg = "ok"
    /\ personvisitationstatus = [kind |-> "dict", navne |-> {}]
    /\ sagsbehandler = "uhentet"
    /\ job_definition = JobDefinition("uhentet", <<>>)
    /\ krav_til_jobsogning = Ingen
    /\ now = IngenTid
    /\ joblog = Joblog("uhentet", <<>>)
    /\ tidligere_maaneds_joblog = <<>>
    /\ antal_sogte_jobs = Ingen
    /\ udfald = ""
    /\ fejl = ""

NextKrav == HentKrav(AlleTekster)

SpecKrav == InitKrav /\ [][NextKrav]_vars

(***************************************************************************)
(* hent_joblog_aktiviteter on the window and deduplication cases:          *)
(* one pass that is about to call it.                                      *)
(***************************************************************************)
InitJoblog ==
    /\ status = <<"in_progress">>
    /\ reference = <<"0101701234">>
    /\ ur \in {local_now(Nu1), local_now(Nu2), local_now(Nu3)}
    /\ updated_at = <<ur>>
    /\ borgere = UhentedeBorgere
    /\ idx = 1
    /\ pc = "joblog"
    /\ kald = <<Kald("hent_borger"), Kald("hent_personvisitationstatus"),
                Kald("hent_jobsøgningsdefinition")>>
    /\ forsoeg = 1
    /\ sidste_forsoeg = "ok"
    /\ personvisitationstatus = [kind |-> "dict", navne |-> {}]
    /\ sagsbehandler = "uhentet"
    /\ job_definition = JobDefinition("tekst", <<"2", " ", "J", "O", "B">>)
    /\ krav_til_jobsogning = 2
    /\ now = IngenTid
    /\ joblog = Joblog("uhentet", <<>>)
    /\ tidligere_maaneds_joblog = <<>>
    /\ antal_sogte_jobs = Ingen
    /\ udfald = ""
    /\ fejl = ""

NextJoblog ==
    \/ HentJoblog(VindueLogs)
    \/ HentJoblog(DedupLogs)

SpecJoblog == InitJoblog /\ [][NextJoblog]_vars

(***************************************************************************)
(* Properties.                                                             *)
(***************************************************************************)
\* the places of the calls of op in the current pass
Steder(op) == {i \in 1..Len(kald) : kald[i].op = op}

Antal(op) == Cardinality(Steder(op))

\* the calls of the Completion Tracker in the current pass
AntalTrack == Antal("track_task") + Antal("track_partial_task")

\* a pass is over: the loop is back at its head, or has returned
PassSlut == idx >= 1 /\ pc \in {"loop", "done"}

Udfaldene ==
    {"Exempt", "RequirementNotFound", "RequirementIndeterminate", "RequirementZero",
     "NoActivityRegistered", "InsufficientActivity", "Compliant"}

\* C1: once the fetched exemption status contains "Brug af Joblog", the pass is
\* over with fritaget_for_joblog having returned True: the item is completed as
\* Exempt, and the pass made no requirement fetch, no job-log fetch, no
\* caseworker lookup, no task, exactly one track_partial_task and no track_task.
C1_FritagetStopperPasset ==
    "Brug af Joblog" \in personvisitationstatus.navne =>
        /\ PassSlut
        /\ udfald = "Exempt"
        /\ status[idx] = "completed"
        /\ Antal("hent_jobsøgningsdefinition") = 0
        /\ Antal("hent_joblog") = 0
        /\ Antal("hent_sagsbehandler") = 0
        /\ Antal("opret_opgave") = 0
        /\ Antal("track_partial_task") = 1
        /\ Antal("track_task") = 0
        /\ kald[Len(kald)] = Kald("track_partial_task")

C1_Witness ==
    /\ personvisitationstatus.navne = {"Brug af Joblog", "Barsel"}
    /\ udfald = "Exempt"
    /\ forsoeg > 1
    /\ Antal("track_partial_task") = 1

\* C2 as claimed: every pass that ends in one of the seven outcomes called the
\* Completion Tracker exactly once.
C2_TrackPraecisEnGang ==
    (PassSlut /\ udfald \in Udfaldene) => AntalTrack = 1

\* C2 as amended: no pass calls the Completion Tracker more than once; a pass
\* that ends in an outcome other than Compliant called it exactly once; a pass
\* that ends Compliant did not call it.
C2_TrackUndtagenCompliant ==
    /\ AntalTrack <= 1
    /\ (PassSlut /\ udfald \in Udfaldene \ {"Compliant"}) => AntalTrack = 1
    /\ (PassSlut /\ udfald = "Compliant") => AntalTrack = 0
    /\ (PassSlut /\ status[idx] = "completed") => udfald \in Udfaldene

C2_Witness ==
    /\ PassSlut
    /\ udfald = "InsufficientActivity"
    /\ Antal("track_task") = 1
    /\ Antal("track_partial_task") = 0

\* C3: a pass that ended with a record not found, the caseworker not found, or
\* the exemption-status fetch raising HTTPError on its last attempt, left the
\* loop running with this one item failed with the error message.
C3_IngenFejlStopperKoerslen ==
    fejl \notin {"", "ConnectionError", "TypeError"} =>
        /\ pc # "aborted"
        /\ status[idx] = "failed"
        /\ kald[Len(kald)] = ItemFail(fejl)

\* C4: a pass that fetched a job log that is present and empty counted 0
\* without an error, and does not end with a failed item for want of a log.
C4_TomJoblogTaeller ==
    joblog = Joblog("list", <<>>) =>
        /\ antal_sogte_jobs = 0
        /\ fejl # "Joblog for borger med CPR {cpr} ikke fundet i Momentum."
        /\ status[idx] # "failed" \/ sagsbehandler = "None"

\* kontroller_jobsøgning has run in this pass
KontrolKoert == antal_sogte_jobs # Ingen /\ pc # "kontrol"

\* the calls of a pass that created the task with this description
OpgaveKald(beskrivelse) ==
    <<Kald("hent_sagsbehandler"), OpretOpgave(beskrivelse),
      Report("Behandlet", beskrivelse), Kald("track_task")>>

\* the last n calls of the pass
Sidste(n) == SubSeq(kald, Len(kald) - n + 1, Len(kald))

\* C5: kontroller_jobsøgning is called with a requirement r >= 1 and a count
\* c >= 0 only; with c = 0 it creates the one task "no jobs registered"
\* (NoActivityRegistered), with 0 < c < r the one task "too few jobs"
\* (InsufficientActivity), each reported and tracked once as a full task, or
\* fails the item with nothing created when the caseworker is not found; with
\* c >= r it ends Compliant with no lookup, task, report or tracking call.
C5_Kontrol ==
    /\ pc = "kontrol" => krav_til_jobsogning >= 1 /\ antal_sogte_jobs >= 0
    /\ KontrolKoert =>
          LET r == krav_til_jobsogning
              c == antal_sogte_jobs
              b == IF c = 0 THEN BeskrivelseIngenJobs ELSE BeskrivelseForFaa
          IN  /\ r >= 1 /\ c >= 0
              /\ c >= r =>
                    /\ udfald = "Compliant"
                    /\ Antal("hent_sagsbehandler") + Antal("opret_opgave")
                         + Antal("report") + AntalTrack = 0
              /\ (c < r /\ sagsbehandler = "fundet") =>
                    /\ udfald = (IF c = 0 THEN "NoActivityRegistered"
                                 ELSE "InsufficientActivity")
                    /\ Sidste(4) = OpgaveKald(b)
                    /\ Antal("opret_opgave") = 1 /\ Antal("report") = 1
                    /\ Antal("track_task") = 1 /\ Antal("track_partial_task") = 0
              /\ (c < r /\ sagsbehandler # "fundet") =>
                    /\ sagsbehandler = "None" /\ udfald = ""
                    /\ status[idx] = "failed"
                    /\ Antal("opret_opgave") + Antal("report") + AntalTrack = 0

C5_Witness ==
    /\ KontrolKoert
    /\ krav_til_jobsogning = 5
    /\ antal_sogte_jobs = 3
    /\ udfald = "InsufficientActivity"
    /\ Sidste(4) = OpgaveKald(BeskrivelseForFaa)

\* C7: the exemption-status fetch is attempted at most 10 times in a pass; an
\* attempt follows only an attempt that raised HTTPError; the first attempt
\* that returns ends the fetch with its value; any other exception leaves the
\* fetch at once; HTTPError on the 10th attempt leaves it as HTTPError.
C7_HoejstTiForsoeg ==
    /\ forsoeg <= 10
    /\ Antal("hent_personvisitationstatus") = forsoeg
    /\ (pc = "status" /\ forsoeg > 0) => sidste_forsoeg = "HTTPError"
    /\ (sidste_forsoeg = "HTTPError" /\ forsoeg < 10) => pc = "status"
    /\ (sidste_forsoeg = "HTTPError" /\ forsoeg = 10) =>
          pc = "aborted" /\ fejl = "HTTPError"
    /\ sidste_forsoeg = "ConnectionError" =>
          pc = "aborted" /\ fejl = "ConnectionError"
    /\ sidste_forsoeg = "ok" =>
          pc # "status" /\ personvisitationstatus.kind # "uhentet"

C7_Witness ==
    /\ forsoeg = 10
    /\ sidste_forsoeg = "HTTPError"
    /\ pc = "aborted"
    /\ fejl = "HTTPError"

\* C10: in a pass, track_task and the "Behandlet" report come only after a task
\* was created; at most one task is created; and when the caseworker lookup
\* returned nothing the pass created no task, reported nothing, tracked
\* nothing, and failed the item with the caseworker error.
C10_OpgaveFoerTrack ==
    /\ \A i \in Steder("track_task") : \E j \in Steder("opret_opgave") : j < i
    /\ \A i \in Steder("report") :
          kald[i].gruppe = "Behandlet" => \E j \in Steder("opret_opgave") : j < i
    /\ Antal("opret_opgave") <= 1
    /\ sagsbehandler = "None" =>
          /\ Antal("opret_opgave") + Antal("report") + AntalTrack = 0
          /\ PassSlut
          /\ status[idx] = "failed"
          /\ fejl = "Sagsbehandler 'dorf' ikke fundet i Momentum."
          /\ kald[Len(kald)] = ItemFail(fejl)

C10_Witness ==
    /\ sagsbehandler = "None"
    /\ status[idx] = "failed"
    /\ antal_sogte_jobs = 0
    /\ kald[Len(kald)] = ItemFail("Sagsbehandler 'dorf' ikke fundet i Momentum.")

(***************************************************************************)
(* The requirement text, read from the unit "job" backwards.               *)
(***************************************************************************)
\* c is a decimal digit, of any script
ErCiffer(c) == \E b \in DOMAIN Decimaler, n \in 0..9 : Decimaler[b][n + 1] = c

\* c is a whitespace character
ErBlank(c) == c \in Whitespace

\* "job", in any case, starts at place j of t
JobVed(t, j) ==
    /\ j + 2 <= Len(t)
    /\ t[j] \in {"j", "J"} /\ t[j + 1] \in {"o", "O"} /\ t[j + 2] \in {"b", "B"}

\* the place of the digit that whitespace alone separates from place j; 0 if none
CifferFoer(t, j) ==
    LET q == {a \in 1..(j - 2) : ErCiffer(t[a]) /\ \A b \in (a + 1)..(j - 1) : ErBlank(t[b])}
    IN  IF q = {} THEN 0 ELSE CHOOSE a \in q : TRUE

\* the places where a "<digits><whitespace>job" ends its whitespace
Ankre(t) == {j \in 1..Len(t) : JobVed(t, j) /\ CifferFoer(t, j) > 0}

\* the value of the whole run of digits that ends at place q
RECURSIVE TalTil(_, _)
TalTil(t, q) ==
    IF q = 0 \/ ~ErCiffer(t[q]) THEN 0
    ELSE 10 * TalTil(t, q - 1)
           + (CHOOSE n \in 0..9 : \E b \in DOMAIN Decimaler : Decimaler[b][n + 1] = t[q])

\* the number of the leftmost "<digits><whitespace>job" of t
FoersteKrav(t) ==
    LET j == CHOOSE a \in Ankre(t) : \A b \in Ankre(t) : a <= b
    IN  TalTil(t, CifferFoer(t, j))

\* the pass ended by creating the task with this description, or, the caseworker
\* not found, by failing the item with nothing created
OpgaveEllerFejl(beskrivelse, gren) ==
    /\ PassSlut
    /\ krav_til_jobsogning = Ingen
    /\ sagsbehandler \in {"fundet", "None"}
    /\ sagsbehandler = "fundet" =>
          /\ udfald = gren
          /\ status[idx] = "completed"
          /\ Sidste(4) = OpgaveKald(beskrivelse)
          /\ Antal("opret_opgave") = 1 /\ AntalTrack = 1
    /\ sagsbehandler = "None" =>
          /\ udfald = ""
          /\ status[idx] = "failed"
          /\ Antal("opret_opgave") + Antal("report") + AntalTrack = 0

\* C6: hent_krav_til_jobsøgning sorts every text four ways.  No text, or the
\* empty text: RequirementNotFound, a task and track_task, nothing returned.  A
\* text with no "<digits><whitespace>job" in any case: RequirementIndeterminate,
\* a task with the other description and track_task, nothing returned.  A text
\* whose leftmost such place has the number 0: RequirementZero,
\* track_partial_task, no task, nothing returned.  Any other text: the number of
\* the leftmost such place is returned, whatever stands before and after it.
C6_KravFireVeje ==
    job_definition.kind \in {"mangler", "tekst"} =>
        LET tekst == job_definition.tekst
        IN  /\ (job_definition.kind = "mangler" \/ tekst = <<>>) =>
                  OpgaveEllerFejl(BeskrivelseIkkeFundet, "RequirementNotFound")
            /\ (job_definition.kind = "tekst" /\ tekst # <<>> /\ Ankre(tekst) = {}) =>
                  OpgaveEllerFejl(BeskrivelseMangler, "RequirementIndeterminate")
            /\ (Ankre(tekst) # {} /\ FoersteKrav(tekst) = 0) =>
                  /\ PassSlut
                  /\ udfald = "RequirementZero"
                  /\ status[idx] = "completed"
                  /\ krav_til_jobsogning = Ingen
                  /\ Sidste(1) = <<Kald("track_partial_task")>>
                  /\ AntalTrack = 1
                  /\ Antal("hent_sagsbehandler") + Antal("opret_opgave") + Antal("report") = 0
            /\ (Ankre(tekst) # {} /\ FoersteKrav(tekst) > 0) =>
                  /\ krav_til_jobsogning = FoersteKrav(tekst)
                  /\ pc = "joblog"
                  /\ udfald = "" /\ fejl = ""
                  /\ Sidste(1) = <<Kald("hent_jobsøgningsdefinition")>>

C6_Witness ==
    /\ job_definition.tekst = <<"0", " ", "j", "o", "b", " ", "5", " ", "j", "o", "b">>
    /\ udfald = "RequirementZero"
    /\ Antal("track_partial_task") = 1

(***************************************************************************)
(* The prior calendar month, by the calendar.                              *)
(***************************************************************************)
ForrigeMaaned(nu) ==
    IF nu.mo = 1 THEN [y |-> nu.y - 1, mo |-> 12] ELSE [y |-> nu.y, mo |-> nu.mo - 1]

\* 00:00:00.000000 UTC on the first day of the prior month
VindueStart(nu) ==
    LET m == ForrigeMaaned(nu) IN <<Ordinal(m.y, m.mo, 1), 0, 0>>

\* 23:59:59.999999 UTC on the last day of the prior month
VindueSlut(nu) ==
    LET m == ForrigeMaaned(nu) IN <<Ordinal(m.y, m.mo, DaysInMonth(m.y, m.mo)), 86399, 999999>>

\* the timestamp is there, is an instant, and lies in the window
IVinduet(nu, ts) ==
    /\ ts.kind # "none"
    /\ parse_date(ts).aware
    /\ InstantLE(VindueStart(nu), Instant(parse_date(ts)))
    /\ InstantLE(Instant(parse_date(ts)), VindueSlut(nu))

\* hent_joblog_aktiviteter has returned in this pass
JoblogTalt == antal_sogte_jobs # Ingen

\* C8: whatever the clock, hent_joblog_aktiviteter keeps exactly the entries
\* whose submission timestamp and last-updated timestamp both lie between the
\* first instant of the prior calendar month and the last microsecond before
\* the current month, both included; a missing timestamp never lies there.
C8_VindueInklusivt ==
    JoblogTalt =>
        tidligere_maaneds_joblog =
            SelectSeq(joblog.entries,
                      LAMBDA e : IVinduet(now, e.submissionDate) /\ IVinduet(now, e.updatedAt))

C8_Witness ==
    /\ JoblogTalt
    /\ now = Nu1
    /\ joblog.entries = <<[BasisEntry EXCEPT !.submissionDate = TsStart, !.updatedAt = TsStart]>>
    /\ tidligere_maaneds_joblog = joblog.entries
    /\ antal_sogte_jobs = 1

(***************************************************************************)
(* The composite key, by its five texts.                                   *)
(***************************************************************************)
\* the text of a field, the empty text when the entry has no such field
FeltTekst(v) == IF v.kind = "absent" THEN <<>> ELSE Format(v)

FemTekster(e) ==
    <<FeltTekst(e.title), FeltTekst(e.companyName), FeltTekst(e.companyPostCode),
      FeltTekst(e.companyTown), FeltTekst(e.distanceToCompanyInMeters)>>

RECURSIVE Sammensat(_)
Sammensat(tekster) ==
    IF Len(tekster) = 1 THEN tekster[1]
    ELSE tekster[1] \o <<" ">> \o Sammensat(Tail(tekster))

\* the fields in which the texts of two entries differ
Forskelle(e1, e2) == {i \in 1..5 : FemTekster(e1)[i] # FemTekster(e2)[i]}

\* C9: the count hent_joblog_aktiviteter returns is the number of distinct
\* composite keys (the five texts joined by spaces) among the entries in the
\* window, in whatever order they come: two entries in the window with the same
\* five texts count once, two that differ in one of the five count as two.
C9_AntalUnikkeNoegler ==
    JoblogTalt =>
        LET inde == tidligere_maaneds_joblog
        IN  /\ antal_sogte_jobs =
                  Cardinality({Sammensat(FemTekster(inde[i])) : i \in 1..Len(inde)})
            /\ Len(inde) = 2 =>
                  /\ Forskelle(inde[1], inde[2]) = {} => antal_sogte_jobs = 1
                  /\ Cardinality(Forskelle(inde[1], inde[2])) = 1 => antal_sogte_jobs = 2

C9_Witness ==
    /\ JoblogTalt
    /\ now = Nu1
    /\ joblog.entries =
          <<[BasisEntry EXCEPT !.submissionDate = TsStart, !.updatedAt = TsSlut], BasisEntry>>
    /\ Len(tidligere_maaneds_joblog) = 2
    /\ antal_sogte_jobs = 1
====
